---- MODULE Spec2Model ----
(***************************************************************************)
(* State-machine model of the Helix browser client: the socket provider    *)
(* (SocketContext.tsx), the chat orchestrator and the inbound socket       *)
(* listeners (App.tsx), the chat bar (ChatBar.tsx), the suggested-prompts  *)
(* hook (useSuggestedPrompts.tsx) and the sequence editors (Workspace.js,  *)
(* Workspace.tsx, SequenceDisplay.js).                                     *)
(*                                                                         *)
(* JavaScript strings are sequences of one-token strings; a nullable value *)
(* is a sequence of length 0 (null / undefined) or 1.  One action is one   *)
(* handler run to completion (the event loop runs handlers one at a time). *)
(***************************************************************************)
EXTENDS Integers, Sequences, FiniteSets, TLC

VARIABLES
    socket,          \* SocketProvider state: "null" before the mount effect, "io" after
    isConnected,     \* SocketProvider state
    promptsAsked,    \* useSuggestedPrompts: its effect has run for the current socket
    suggestedPrompts,\* useSuggestedPrompts state: list of prompts (text only is used)
    messages,        \* App state: list of Message
    sequence,        \* App state: Null or Some(Sequence)
    seqSeen,         \* the value of `sequence` the registered socket listeners closed over
    socketId,        \* App state
    isLoading,       \* App state
    now,             \* the reading of Date.now()
    emitted,         \* events handed to socket.emit by the last handler, in order
    last,            \* the last handler that ran: its name, its text and id arguments,
                     \* and the severity of the snackbar it showed ("none" if none)
    csvFile,         \* Workspace.tsx state: Null or Some(text of the chosen file)
    candidates,      \* Workspace.tsx state: list of Candidate
    selectedCandidate, \* Workspace.tsx state: Null or Some(Candidate)
    emailTemplate,   \* Workspace.tsx state: the text of the template field
    preview          \* the text the email dialog renders under "Preview:"

\* the state of the Candidates tab and the email dialog of Workspace.tsx
workspace == <<csvFile, candidates, selectedCandidate, emailTemplate, preview>>

vars == <<socket, isConnected, promptsAsked, suggestedPrompts, messages, sequence,
          seqSeen, socketId, isLoading, now, emitted, last, workspace>>

----------------------------------------------------------------------------
(* Bounds of the model *)

MaxLen == 2
MaxMsgs == 2
MaxSteps == 3
MaxClock == 1
MaxRows == 2

----------------------------------------------------------------------------
(* Values *)

Null == <<>>
Some(x) == <<x>>
IsNull(o) == o = <<>>
Val(o) == o[1]

Chars == {"a", " "}
TextsUpTo(n) == UNION {[1..k -> Chars] : k \in 0..n}
TypedTexts == TextsUpTo(MaxLen)

\* JavaScript truthiness of a string: the empty string is falsy
Truthy(s) == s # <<>>
\* JavaScript truthiness of an optional string field: absent and "" are falsy
TruthyOpt(o) == o # <<>> /\ Truthy(o[1])

RECURSIVE TrimStart(_)
TrimStart(s) == IF s # <<>> /\ Head(s) = " " THEN TrimStart(Tail(s)) ELSE s
RECURSIVE TrimEnd(_)
TrimEnd(s) == IF s # <<>> /\ s[Len(s)] = " " THEN TrimEnd(SubSeq(s, 1, Len(s) - 1)) ELSE s
\* String.prototype.trim
Trim(s) == TrimEnd(TrimStart(s))

\* Date.now().toString()
NowId == ToString(now)

\* A Message. Its id and timestamp are readings of the clock that no handler reads
\* back; the model keeps the text and the sender.
Message(text, sender) == [text |-> text, sender |-> sender]

RefinedText == <<"I've refined the sequence step based on your feedback.">>
ApologyText == <<"I apologize, but I encountered an error processing the response.">>
ErrorText(e) == <<"Error: ">> \o e

----------------------------------------------------------------------------
(* Sequence document: App.tsx interfaces SequenceStep, SequenceMetadata, Sequence *)

Step(id, type, content, delay, tips) ==
    [id |-> id, type |-> type, content |-> content, delay |-> delay,
     personalization_tips |-> tips]

StepTypes == <<"email", "linkedin", "call", "meeting">>

\* the i-th step the server knows: id "s<i>", well-formed, ids pairwise distinct
ServerStep(i) ==
    Step("s" \o ToString(i), StepTypes[((i - 1) % 4) + 1], <<"c", ToString(i)>>, i - 1, <<>>)
ServerSteps == [i \in 1..MaxSteps |-> ServerStep(i)]
\* step arrays the server sends: the prefixes of ServerSteps, the empty array included
ServerStepLists == {SubSeq(ServerSteps, 1, j) : j \in 0..MaxSteps}

Metadata(role, at) ==
    [role |-> role, industry |-> "Technology", seniority |-> "Mid-Level",
     company_type |-> "Enterprise", generated_at |-> at]
\* metadata the server sends
ServerMetadata == {Metadata("Engineer", "g1"), Metadata("Designer", "g2")}
\* the metadata the client synthesizes; generated_at is new Date().toISOString()
DefaultMetadata == Metadata("Recruiting", NowId)

Sequence(m, s) == [metadata |-> m, steps |-> s]

StepIds(steps) == {steps[i].id : i \in DOMAIN steps}
\* Array.prototype.filter(step => step.id !== id)
RECURSIVE FilterOut(_, _)
FilterOut(steps, id) ==
    IF steps = <<>> THEN <<>>
    ELSE IF Head(steps).id # id THEN <<Head(steps)>> \o FilterOut(Tail(steps), id)
         ELSE FilterOut(Tail(steps), id)
\* Array.prototype.map(step => step.id === id ? {...step, content} : step)
MapContent(steps, id, content) ==
    [i \in DOMAIN steps |->
        IF steps[i].id = id THEN [steps[i] EXCEPT !.content = content] ELSE steps[i]]

----------------------------------------------------------------------------
(* JSON carried by the server's events *)

\* a decoded tool_result object: every field optional
ToolObj(m, s, st, sq) == [metadata |-> m, steps |-> s, status |-> st, sequence |-> sq]
\* the tool results the server sends: a generated sequence, the step list after an
\* edit, a failure
GeneratedObj == ToolObj(Some(Metadata("Engineer", "g1")), Some(ServerSteps), Null, Null)
EditedObj == ToolObj(Null, Null, Some("success"), Some(SubSeq(ServerSteps, 1, 1)))
ToolObjs == {GeneratedObj, EditedObj, ToolObj(Null, Null, Some("error"), Null)}

RECURSIVE Flatten(_)
Flatten(ss) == IF ss = <<>> THEN <<>> ELSE Head(ss) \o Flatten(Tail(ss))
StepJSON(st) ==
    <<"{", "id:", st.id, "type:", st.type, "content:">> \o st.content
    \o <<"delay:", ToString(st.delay), "tips:">> \o st.personalization_tips \o <<"}">>
StepsJSON(steps) == <<"[">> \o Flatten([i \in DOMAIN steps |-> StepJSON(steps[i])]) \o <<"]">>
MetaJSON(m) == <<"{", m.role, m.industry, m.seniority, m.company_type, m.generated_at, "}">>
\* JSON.stringify on the server side of a tool result
ToolJSON(o) ==
    <<"{">>
    \o (IF IsNull(o.metadata) THEN <<>> ELSE <<"metadata:">> \o MetaJSON(Val(o.metadata)))
    \o (IF IsNull(o.steps) THEN <<>> ELSE <<"steps:">> \o StepsJSON(Val(o.steps)))
    \o (IF IsNull(o.status) THEN <<>> ELSE <<"status:", Val(o.status)>>)
    \o (IF IsNull(o.sequence) THEN <<>> ELSE <<"sequence:">> \o StepsJSON(Val(o.sequence)))
    \o <<"}">>
\* the tool_result strings the server sends: encodings of objects, "null", and text
\* that is no JSON
ToolResults == {ToolJSON(o) : o \in ToolObjs} \cup {<<"null">>, <<"Done", "!">>}
\* JSON.parse(responseData.tool_result): the object a string encodes; kind "null" for
\* the JSON null; kind "throw" when the string is no JSON (SyntaxError)
ParseTool(str) ==
    IF str = <<"null">> THEN [kind |-> "null"]
    ELSE IF \E o \in ToolObjs : ToolJSON(o) = str
         THEN [kind |-> "object", obj |-> CHOOSE o \in ToolObjs : ToolJSON(o) = str]
         ELSE [kind |-> "throw"]

\* a decoded chat_response envelope; llm_response is reduced to its action
Envelope(st, cr, act, tr, err) ==
    [status |-> st, chat_response |-> cr, action |-> act, tool_result |-> tr, error |-> err]
ChatTexts == {<<>>, <<"h", "i">>}
Actions == {"generate_sequence", "edit_sequence_step", "modify_sequence"}
Envelopes ==
    {Envelope("success", cr, act, tr, Null) :
        cr \in {Null} \cup {Some(t) : t \in ChatTexts},
        act \in {Null} \cup {Some(a) : a \in Actions},
        tr \in {Null} \cup {Some(t) : t \in ToolResults}}
    \cup {Envelope(st, Null, Null, Null, err) :
        st \in {"error", "pending"}, err \in {Null, Some(<<"boom">>)}}
\* data.data of a chat_response event: the JSON of an envelope, "null", or no JSON;
\* JSON.parse(data.data) gives the envelope, null, or throws
ChatWire ==
    {[kind |-> "object", env |-> e] : e \in Envelopes}
    \cup {[kind |-> "null"], [kind |-> "throw"]}

----------------------------------------------------------------------------
(* Bookkeeping shared by the actions *)

\* the record of a handler's run: its name, the text and the id (or action) it was
\* given, the status field of its payload, the severity of the snackbar it showed,
\* and what JSON.parse made of its payload ("" where nothing is parsed)
Ran(op, text, id) ==
    [op |-> op, text |-> text, id |-> id, status |-> "", shown |-> "none", decoded |-> ""]
RanShowing(op, text, id, severity) ==
    [op |-> op, text |-> text, id |-> id, status |-> "", shown |-> severity, decoded |-> ""]
Event(name) == [event |-> name]
ChatMessageEvent(message, steps) ==
    [event |-> "chat_message", message |-> message, current_sequence |-> steps]
SequenceUpdateEvent(steps) == [event |-> "sequence_update", sequence |-> steps]
EditStepEvent(id, content) ==
    [event |-> "edit_sequence_step", step_id |-> id, new_content |-> content]
ProcessEditEvent(id, content) ==
    [event |-> "process_edit", step_id |-> id, content |-> content,
     request |-> "Refine this step based on the edits to make it more effective"]

\* SocketContext.tsx emitEvent: the events handed to socket.emit for one call. The
\* call is refused only when the socket is null; a disconnected socket is warned
\* about and used all the same.
EmitEvent(ev) == IF socket = "null" THEN <<>> ELSE <<ev>>
\* the boolean emitEvent returns
EmitOk == socket # "null"

\* sequence?.steps || []
StepsOrEmpty(seq) == IF IsNull(seq) THEN <<>> ELSE Val(seq).steps

----------------------------------------------------------------------------
(* SocketContext.tsx, useSuggestedPrompts.tsx *)

Init ==
    /\ socket = "null"
    /\ isConnected = FALSE
    /\ promptsAsked = FALSE
    /\ suggestedPrompts = <<>>
    /\ messages = <<>>
    /\ sequence = Null
    /\ seqSeen = Null
    /\ socketId = Null
    /\ isLoading = FALSE
    /\ now = 0
    /\ emitted = <<>>
    /\ last = Ran("construct", <<>>, "")
    /\ csvFile = Null
    /\ candidates = <<>>
    /\ selectedCandidate = Null
    /\ emailTemplate = <<>>
    /\ preview = <<>>

\* SocketProvider mount effect: io(BACKEND_URL), setSocket(newSocket)
Mount ==
    /\ socket = "null"
    /\ socket' = "io"
    /\ emitted' = <<>>
    /\ last' = Ran("mount", <<>>, "")
    /\ UNCHANGED workspace
    /\ UNCHANGED <<isConnected, promptsAsked, suggestedPrompts, messages, sequence,
                   seqSeen, socketId, isLoading, now>>

\* newSocket.on('connect'): a network event, so it comes after the effects of the
\* render that set the socket
OnConnect ==
    /\ socket = "io" /\ ~isConnected /\ promptsAsked
    /\ isConnected' = TRUE
    /\ emitted' = <<>>
    /\ last' = Ran("connect", <<>>, "")
    /\ UNCHANGED workspace
    /\ UNCHANGED <<socket, promptsAsked, suggestedPrompts, messages, sequence,
                   seqSeen, socketId, isLoading, now>>

\* variant: a lost connection gives up the request in flight
OnDisconnectCancelling ==
    /\ socket = "io"
    /\ isConnected' = FALSE
    /\ isLoading' = FALSE
    /\ emitted' = <<>>
    /\ last' = Ran(IF isConnected THEN "disconnect" ELSE "connect_error", <<>>, "")
    /\ UNCHANGED workspace
    /\ UNCHANGED <<socket, promptsAsked, suggestedPrompts, messages, sequence,
                   seqSeen, socketId, now>>

\* newSocket.on('disconnect') while connected, newSocket.on('connect_error') while not
OnDisconnect ==
    /\ socket = "io"
    /\ isConnected' = FALSE
    /\ emitted' = <<>>
    /\ last' = Ran(IF isConnected THEN "disconnect" ELSE "connect_error", <<>>, "")
    /\ UNCHANGED workspace
    /\ UNCHANGED <<socket, promptsAsked, suggestedPrompts, messages, sequence,
                   seqSeen, socketId, isLoading, now>>

\* useSuggestedPrompts effect, run once the socket exists: socket.emit directly,
\* with no look at the connection state
SuggestedPromptsEffect ==
    /\ socket = "io" /\ ~promptsAsked
    /\ promptsAsked' = TRUE
    /\ emitted' = <<Event("get_suggested_prompts")>>
    /\ last' = Ran("useSuggestedPrompts", <<>>, "")
    /\ UNCHANGED workspace
    /\ UNCHANGED <<socket, isConnected, suggestedPrompts, messages, sequence,
                   seqSeen, socketId, isLoading, now>>

\* the prompt lists the server sends (only the text of a prompt is used)
PromptLists == {<<>>, << <<"a">> >>, << <<"a">>, <<>> >>}

\* handleSuggestedPrompts
OnSuggestedPrompts(prompts) ==
    /\ socket = "io" /\ isConnected /\ promptsAsked
    /\ suggestedPrompts' = prompts
    /\ emitted' = <<>>
    /\ last' = Ran("suggested_prompts", <<>>, "")
    /\ UNCHANGED workspace
    /\ UNCHANGED <<socket, isConnected, promptsAsked, messages, sequence,
                   seqSeen, socketId, isLoading, now>>

\* the clock advances between handlers
Tick ==
    /\ now < MaxClock
    /\ now' = now + 1
    /\ emitted' = <<>>
    /\ last' = Ran("tick", <<>>, "")
    /\ UNCHANGED workspace
    /\ UNCHANGED <<socket, isConnected, promptsAsked, suggestedPrompts, messages,
                   sequence, seqSeen, socketId, isLoading>>

\* The effect of App.tsx 421-664 runs again after a render in which `sequence`
\* changed: the listeners are removed and registered anew, closing over the new value.
ListenersEffect ==
    /\ socket = "io" /\ seqSeen # sequence
    /\ seqSeen' = sequence
    /\ emitted' = <<>>
    /\ last' = Ran("effect", <<>>, "")
    /\ UNCHANGED workspace
    /\ UNCHANGED <<socket, isConnected, promptsAsked, suggestedPrompts, messages,
                   sequence, socketId, isLoading, now>>

----------------------------------------------------------------------------
(* Chat: ChatBar.tsx handleSubmit / handlePromptClick, App.tsx handleSendMessage *)

\* handleSendMessage without its setIsLoading(true)
HandleSendMessageNotLoading(message) ==
    IF ~isConnected
    THEN /\ emitted' = <<>>
         /\ UNCHANGED <<messages, isLoading>>
    ELSE /\ messages' = Append(messages, Message(message, "user"))
         /\ isLoading' = isLoading
         /\ emitted' = EmitEvent(ChatMessageEvent(message, StepsOrEmpty(sequence)))

\* App.tsx handleSendMessage
HandleSendMessage(message) ==
    IF ~isConnected
    THEN /\ emitted' = <<>>
         /\ UNCHANGED <<messages, isLoading>>
    ELSE /\ messages' = Append(messages, Message(message, "user"))
         /\ isLoading' = TRUE
         /\ emitted' = EmitEvent(ChatMessageEvent(message, StepsOrEmpty(sequence)))

\* A user event is dispatched to the handlers of the last render, and React renders
\* and runs the pending effects before the user gets to act on what is shown.
Rendered == socket = "io" /\ seqSeen = sequence

\* handleSubmit's condition without its test of isLoading
SubmitGuardWhileLoading(message) == Truthy(Trim(message)) /\ isConnected
\* the condition of ChatBar.tsx handleSubmit
SubmitGuard(message) == Truthy(Trim(message)) /\ isConnected /\ ~isLoading
\* the condition of ChatBar.tsx handlePromptClick
PromptGuard(promptText) == isConnected /\ ~isLoading

\* ChatBar.tsx handleSubmit, `message` being the content of the text field
HandleSubmit(message) ==
    /\ Rendered
    /\ Len(messages) < MaxMsgs
    /\ IF SubmitGuard(message)
       THEN HandleSendMessage(Trim(message))
       ELSE /\ emitted' = <<>>
            /\ UNCHANGED <<messages, isLoading>>
    /\ last' = Ran("handleSubmit", message, "")
    /\ UNCHANGED workspace
    /\ UNCHANGED <<socket, isConnected, promptsAsked, suggestedPrompts, sequence,
                   seqSeen, socketId, now>>

\* ChatBar.tsx handlePromptClick, for a prompt of the rendered list: the prompts are
\* rendered while there is no message (ChatBar.tsx 256)
HandlePromptClick(promptText) ==
    /\ Rendered
    /\ messages = <<>>
    /\ Len(messages) < MaxMsgs
    /\ IF PromptGuard(promptText)
       THEN HandleSendMessage(promptText)
       ELSE /\ emitted' = <<>>
            /\ UNCHANGED <<messages, isLoading>>
    /\ last' = Ran("handlePromptClick", promptText, "")
    /\ UNCHANGED workspace
    /\ UNCHANGED <<socket, isConnected, promptsAsked, suggestedPrompts, sequence,
                   seqSeen, socketId, now>>

----------------------------------------------------------------------------
(* App.tsx socket listeners.  An inbound event is delivered on a live connection. *)

Listening == socket = "io" /\ isConnected

SocketIds == {"k1"}

\* the connection_response listener without its emit('get_chat_history')
OnConnectionResponseOnly(id) ==
    /\ Listening
    /\ socketId' = Some(id)
    /\ emitted' = <<>>
    /\ last' = Ran("connection_response", <<>>, id)
    /\ UNCHANGED workspace
    /\ UNCHANGED <<socket, isConnected, promptsAsked, suggestedPrompts, messages,
                   sequence, seqSeen, isLoading, now>>

\* socket.on('connection_response')
OnConnectionResponse(id) ==
    /\ Listening
    /\ socketId' = Some(id)
    /\ emitted' = EmitEvent(Event("get_chat_history"))
    /\ last' = Ran("connection_response", <<>>, id)
    /\ UNCHANGED workspace
    /\ UNCHANGED <<socket, isConnected, promptsAsked, suggestedPrompts, messages,
                   sequence, seqSeen, isLoading, now>>

IsAction(r, a) == r.action = Some(a)

\* the chat text, the status and the action a chat_response event carries ("" and
\* no text when it carries none)
WireText(w) ==
    IF w.kind = "object" /\ TruthyOpt(w.env.chat_response) THEN Val(w.env.chat_response)
    ELSE <<>>
WireStatus(w) == IF w.kind = "object" THEN w.env.status ELSE ""
WireAction(w) ==
    IF w.kind = "object" /\ ~IsNull(w.env.action) THEN Val(w.env.action) ELSE ""
\* what the handler's JSON.parse calls made of the payload: of data.data when it is
\* no envelope, else of the tool_result the sequence branches parse
WireDecoded(w) ==
    IF w.kind = "throw" THEN "no JSON"
    ELSE IF w.kind = "null" THEN "null"
    ELSE LET r == w.env IN
         IF /\ r.status = "success" /\ TruthyOpt(r.tool_result)
            /\ (IsAction(r, "generate_sequence") \/ IsAction(r, "edit_sequence_step"))
         THEN (LET p == ParseTool(Val(r.tool_result)) IN
               IF p.kind = "throw" THEN "tool_result no JSON"
               ELSE IF p.kind = "null" THEN "tool_result null"
               ELSE "tool_result object")
         ELSE "envelope"
\* the run of the chat_response handler on the payload w
RanOnWire(w) ==
    [op |-> "chat_response", text |-> WireText(w), id |-> WireAction(w),
     status |-> WireStatus(w), shown |-> "none", decoded |-> WireDecoded(w)]

\* the chat_response handler with a fourth branch that does not look at the chat text
ChatResponseTextsBoth(w) ==
    IF w.kind # "object" THEN <<ApologyText>>
    ELSE LET r == w.env IN
         IF r.status = "success"
         THEN (IF TruthyOpt(r.chat_response) THEN <<Val(r.chat_response)>> ELSE <<>>)
              \o (IF IsAction(r, "generate_sequence") /\ TruthyOpt(r.tool_result) THEN <<>>
                  ELSE IF IsAction(r, "edit_sequence_step") /\ TruthyOpt(r.tool_result)
                       THEN <<>>
                  ELSE IF IsAction(r, "modify_sequence") /\ ~TruthyOpt(r.chat_response)
                       THEN <<RefinedText>>
                  ELSE IF TruthyOpt(r.tool_result)
                       THEN <<Val(r.tool_result)>>
                  ELSE <<>>)
         ELSE IF TruthyOpt(r.error) THEN <<ErrorText(Val(r.error))>>
         ELSE <<>>

\* variant: the branch for other tool results comes before the modify_sequence branch
ChatResponseTextsToolFirst(w) ==
    IF w.kind # "object" THEN <<ApologyText>>
    ELSE LET r == w.env IN
         IF r.status = "success"
         THEN (IF TruthyOpt(r.chat_response) THEN <<Val(r.chat_response)>> ELSE <<>>)
              \o (IF IsAction(r, "generate_sequence") /\ TruthyOpt(r.tool_result) THEN <<>>
                  ELSE IF IsAction(r, "edit_sequence_step") /\ TruthyOpt(r.tool_result)
                       THEN <<>>
                  ELSE IF TruthyOpt(r.tool_result) /\ ~TruthyOpt(r.chat_response)
                       THEN <<Val(r.tool_result)>>
                  ELSE IF IsAction(r, "modify_sequence") /\ ~TruthyOpt(r.chat_response)
                       THEN <<RefinedText>>
                  ELSE <<>>)
         ELSE IF TruthyOpt(r.error) THEN <<ErrorText(Val(r.error))>>
         ELSE <<>>

\* variant: the modify_sequence branch does not look at the chat text
ChatResponseTextsRefinedToo(w) ==
    IF w.kind # "object" THEN <<ApologyText>>
    ELSE LET r == w.env IN
         IF r.status = "success"
         THEN (IF TruthyOpt(r.chat_response) THEN <<Val(r.chat_response)>> ELSE <<>>)
              \o (IF IsAction(r, "generate_sequence") /\ TruthyOpt(r.tool_result) THEN <<>>
                  ELSE IF IsAction(r, "edit_sequence_step") /\ TruthyOpt(r.tool_result)
                       THEN <<>>
                  ELSE IF IsAction(r, "modify_sequence")
                       THEN <<RefinedText>>
                  ELSE IF TruthyOpt(r.tool_result) /\ ~TruthyOpt(r.chat_response)
                       THEN <<Val(r.tool_result)>>
                  ELSE <<>>)
         ELSE IF TruthyOpt(r.error) THEN <<ErrorText(Val(r.error))>>
         ELSE <<>>

\* socket.on('chat_response'): the texts of the Messages the handler appends, in order
ChatResponseTexts(w) ==
    IF w.kind # "object" THEN <<ApologyText>>
    ELSE LET r == w.env IN
         IF r.status = "success"
         THEN (IF TruthyOpt(r.chat_response) THEN <<Val(r.chat_response)>> ELSE <<>>)
              \o (IF IsAction(r, "generate_sequence") /\ TruthyOpt(r.tool_result) THEN <<>>
                  ELSE IF IsAction(r, "edit_sequence_step") /\ TruthyOpt(r.tool_result)
                       THEN <<>>
                  ELSE IF IsAction(r, "modify_sequence") /\ ~TruthyOpt(r.chat_response)
                       THEN <<RefinedText>>
                  ELSE IF TruthyOpt(r.tool_result) /\ ~TruthyOpt(r.chat_response)
                       THEN <<Val(r.tool_result)>>
                  ELSE <<>>)
         ELSE IF TruthyOpt(r.error) THEN <<ErrorText(Val(r.error))>>
         ELSE <<>>

\* the generate_sequence branch without its test of toolResult.metadata and
\* toolResult.steps: setSequence(toolResult) for any decoded object
GenerateSequenceUnchecked(toolResult, cur) ==
    LET p == ParseTool(toolResult) IN
    IF p.kind = "object" THEN Some(p.obj) ELSE cur

\* variant: the generated steps are put under the metadata already held
GenerateSequenceKeepingMetadata(toolResult, cur) ==
    LET p == ParseTool(toolResult) IN
    IF p.kind = "object" /\ ~IsNull(p.obj.metadata) /\ ~IsNull(p.obj.steps)
    THEN Some(Sequence(IF IsNull(cur) THEN Val(p.obj.metadata) ELSE Val(cur).metadata,
                       Val(p.obj.steps)))
    ELSE cur

\* the generate_sequence branch (App.tsx 457-472): the Sequence it stores
GenerateSequence(toolResult, cur) ==
    LET p == ParseTool(toolResult) IN
    IF p.kind = "object" /\ ~IsNull(p.obj.metadata) /\ ~IsNull(p.obj.steps)
    THEN Some(Sequence(Val(p.obj.metadata), Val(p.obj.steps)))
    ELSE cur

\* {...sequence, steps} for the `sequence` of the listeners' closure, else a new
\* Sequence with the default metadata
WithSteps(seen, steps) ==
    IF ~IsNull(seen)
    THEN Some([Val(seen) EXCEPT !.steps = steps])
    ELSE Some(Sequence(DefaultMetadata, steps))

\* the edit_sequence_step branch (App.tsx 475-505)
EditSequenceStep(toolResult, seen, cur) ==
    LET p == ParseTool(toolResult) IN
    IF p.kind = "object" /\ p.obj.status = Some("success") /\ ~IsNull(p.obj.sequence)
    THEN WithSteps(seen, Val(p.obj.sequence))
    ELSE cur

\* socket.on('chat_response'): the value of `sequence` after the handler
ChatResponseSequence(w, seen, cur) ==
    IF w.kind # "object" THEN cur
    ELSE LET r == w.env IN
         IF r.status # "success" THEN cur
         ELSE IF IsAction(r, "generate_sequence") /\ TruthyOpt(r.tool_result)
              THEN GenerateSequence(Val(r.tool_result), cur)
         ELSE IF IsAction(r, "edit_sequence_step") /\ TruthyOpt(r.tool_result)
              THEN EditSequenceStep(Val(r.tool_result), seen, cur)
         ELSE cur

AiMessages(texts) == [i \in DOMAIN texts |-> Message(texts[i], "ai")]

\* variant: the response replaces the list
OnChatResponseReplacing(w) ==
    /\ Listening
    /\ Len(ChatResponseTexts(w)) <= MaxMsgs
    /\ isLoading' = FALSE
    /\ messages' = AiMessages(ChatResponseTexts(w))
    /\ sequence' = ChatResponseSequence(w, seqSeen, sequence)
    /\ emitted' = <<>>
    /\ last' = RanOnWire(w)
    /\ UNCHANGED workspace
    /\ UNCHANGED <<socket, isConnected, promptsAsked, suggestedPrompts, seqSeen,
                   socketId, now>>

\* variant: loading stops when the response decodes to a success
OnChatResponseLoadingOnFailure(w) ==
    /\ Listening
    /\ Len(messages) + Len(ChatResponseTexts(w)) <= MaxMsgs
    /\ isLoading' = (isLoading /\ WireStatus(w) # "success")
    /\ messages' = messages \o AiMessages(ChatResponseTexts(w))
    /\ sequence' = ChatResponseSequence(w, seqSeen, sequence)
    /\ emitted' = <<>>
    /\ last' = RanOnWire(w)
    /\ UNCHANGED workspace
    /\ UNCHANGED <<socket, isConnected, promptsAsked, suggestedPrompts, seqSeen,
                   socketId, now>>

\* socket.on('chat_response')
OnChatResponse(w) ==
    /\ Listening
    /\ Len(messages) + Len(ChatResponseTexts(w)) <= MaxMsgs
    /\ isLoading' = FALSE
    /\ messages' = messages \o AiMessages(ChatResponseTexts(w))
    /\ sequence' = ChatResponseSequence(w, seqSeen, sequence)
    /\ emitted' = <<>>
    /\ last' = RanOnWire(w)
    /\ UNCHANGED workspace
    /\ UNCHANGED <<socket, isConnected, promptsAsked, suggestedPrompts, seqSeen,
                   socketId, now>>

\* the histories the server replays: lists of {text, sender}
Histories ==
    {<<>>,
     <<[text |-> <<"a">>, sender |-> "user"]>>,
     <<[text |-> <<"a">>, sender |-> "user"], [text |-> <<"h", "i">>, sender |-> "ai"]>>}

\* socket.on('chat_history')
OnChatHistory(h) ==
    /\ Listening
    /\ Len(h) <= MaxMsgs
    /\ messages' = [i \in DOMAIN h |-> Message(h[i].text, h[i].sender)]
    /\ emitted' = <<>>
    /\ last' = Ran("chat_history", <<>>, "")
    /\ UNCHANGED workspace
    /\ UNCHANGED <<socket, isConnected, promptsAsked, suggestedPrompts, sequence,
                   seqSeen, socketId, isLoading, now>>

\* data.data of a sequence_updated event: null, a bare step array, or an object
\* with optional metadata and steps
SequenceUpdatedData ==
    {[kind |-> "null"]}
    \cup {[kind |-> "array", steps |-> st] : st \in ServerStepLists}
    \cup {[kind |-> "object", metadata |-> m, steps |-> st] :
            m \in {Null} \cup {Some(x) : x \in ServerMetadata},
            st \in {Null} \cup {Some(x) : x \in ServerStepLists}}

\* socket.on('sequence_updated'): the value of `sequence` after the handler
SequenceUpdated(d, seen, cur) ==
    IF d.kind = "null" THEN cur
    ELSE IF d.kind = "array" THEN WithSteps(seen, d.steps)
    ELSE IF ~IsNull(d.metadata) /\ ~IsNull(d.steps)
         THEN Some(Sequence(Val(d.metadata), Val(d.steps)))
    ELSE IF ~IsNull(d.steps) THEN WithSteps(seen, Val(d.steps))
    ELSE cur

\* socket.on('sequence_updated')
OnSequenceUpdated(d) ==
    /\ Listening
    /\ sequence' = SequenceUpdated(d, seqSeen, sequence)
    /\ emitted' = <<>>
    /\ last' = Ran("sequence_updated", <<>>, d.kind)
    /\ UNCHANGED workspace
    /\ UNCHANGED <<socket, isConnected, promptsAsked, suggestedPrompts, messages,
                   seqSeen, socketId, isLoading, now>>

RefinedContents == {<<>>, <<"r">>}
\* the ids a step_refined event names: ids the client holds, a server id, no id
RefinedIds ==
    StepIds(StepsOrEmpty(sequence)) \cup StepIds(StepsOrEmpty(seqSeen)) \cup {"", "s1"}

\* the condition of the step_refined handler
RefineGuard(id, content, seen) == id # "" /\ Truthy(content) /\ ~IsNull(seen)

\* socket.on('step_refined'): the value of `sequence` after the handler
StepRefined(id, content, seen, cur) ==
    IF RefineGuard(id, content, seen)
    THEN Some([Val(seen) EXCEPT !.steps = MapContent(Val(seen).steps, id, content)])
    ELSE cur

\* socket.on('step_refined')
OnStepRefined(id, content) ==
    /\ Listening
    /\ RefineGuard(id, content, seqSeen) => Len(messages) < MaxMsgs
    /\ sequence' = StepRefined(id, content, seqSeen, sequence)
    /\ messages' = IF RefineGuard(id, content, seqSeen)
                   THEN Append(messages, Message(RefinedText, "ai"))
                   ELSE messages
    /\ emitted' = <<>>
    /\ last' = Ran("step_refined", content, id)
    /\ UNCHANGED workspace
    /\ UNCHANGED <<socket, isConnected, promptsAsked, suggestedPrompts, seqSeen,
                   socketId, isLoading, now>>

----------------------------------------------------------------------------
(* Sequence editors *)

\* the conditions under which App.tsx handleSequenceUpdate goes on
UpdateGuard == isConnected /\ ~IsNull(sequence)
\* variant: the updated steps are stored under the default metadata
UpdatedSequenceDefaultMetadata(updatedSteps) ==
    IF UpdateGuard THEN Some(Sequence(DefaultMetadata, updatedSteps)) ELSE sequence
\* App.tsx handleSequenceUpdate: the value of `sequence` after the call
UpdatedSequence(updatedSteps) ==
    IF UpdateGuard THEN Some([Val(sequence) EXCEPT !.steps = updatedSteps]) ELSE sequence
\* handleSequenceUpdate emitting without its test of isConnected
UpdateEmitsUnguarded(updatedSteps) ==
    IF ~IsNull(sequence) THEN EmitEvent(SequenceUpdateEvent(updatedSteps)) ELSE <<>>
\* variant: handleSequenceUpdate emitting without its test of the sequence
UpdateEmitsWithoutSequence(updatedSteps) ==
    IF isConnected THEN EmitEvent(SequenceUpdateEvent(updatedSteps)) ELSE <<>>
\* App.tsx handleSequenceUpdate: the events it emits
UpdateEmits(updatedSteps) ==
    IF UpdateGuard THEN EmitEvent(SequenceUpdateEvent(updatedSteps)) ELSE <<>>

\* what the step dialog holds when Save is pressed: type, content, delay, tips
NewStep(type, content, delay, tips) ==
    [type |-> type, content |-> content, delay |-> delay, personalization_tips |-> tips]
NewSteps == {NewStep("email", <<>>, 0, <<>>), NewStep("call", <<"n">>, 2, <<"t">>)}

\* { ...newStep, id: Date.now().toString() }
AddedStep(newStep) ==
    Step(NowId, newStep.type, newStep.content, newStep.delay, newStep.personalization_tips)

\* Workspace.js handleSaveStep: the step list handed to onSequenceUpdate. The dialog
\* of Workspace.js is only ever opened to add a step (editingStep stays null), and
\* parsedSequence is the sequence prop.
JsUpdatedSteps(newStep) == Append(StepsOrEmpty(sequence), AddedStep(newStep))

\* Workspace.js handleSaveStep
JsSaveStep(newStep) ==
    /\ Rendered
    /\ Len(StepsOrEmpty(sequence)) < MaxSteps
    /\ IF ~Truthy(newStep.content)
       THEN /\ emitted' = <<>>
            /\ UNCHANGED sequence
       ELSE /\ sequence' = UpdatedSequence(JsUpdatedSteps(newStep))
            /\ emitted' = UpdateEmits(JsUpdatedSteps(newStep))
    /\ last' = Ran("Workspace.js handleSaveStep", newStep.content, "")
    /\ UNCHANGED workspace
    /\ UNCHANGED <<socket, isConnected, promptsAsked, suggestedPrompts, messages,
                   seqSeen, socketId, isLoading, now>>

\* sequence.steps.map(step => step.id === editingStep.id ? {...step, ...newStep} : step):
\* newStep began as a copy of the edited step, so it carries that step's id
MapEdited(steps, id, newStep) ==
    [i \in DOMAIN steps |->
        IF steps[i].id = id
        THEN Step(id, newStep.type, newStep.content, newStep.delay,
                  newStep.personalization_tips)
        ELSE steps[i]]

\* Workspace.tsx handleSaveStep: the step list handed to onSequenceUpdate.
\* `editing` is Null when the dialog was opened to add a step, else the id of
\* editingStep, the step the dialog was opened on (which may since have left the list).
TsxUpdatedSteps(editing, newStep) ==
    IF ~IsNull(editing)
    THEN MapEdited(Val(sequence).steps, Val(editing), newStep)
    ELSE Append(Val(sequence).steps, AddedStep(newStep))

\* Workspace.tsx handleSaveStep
TsxSaveStep(editing, newStep) ==
    /\ Rendered
    /\ IsNull(editing) => Len(StepsOrEmpty(sequence)) < MaxSteps
    /\ IF ~Truthy(newStep.content) \/ IsNull(sequence)
       THEN /\ emitted' = <<>>
            /\ UNCHANGED sequence
       ELSE /\ sequence' = UpdatedSequence(TsxUpdatedSteps(editing, newStep))
            /\ emitted' = UpdateEmits(TsxUpdatedSteps(editing, newStep))
    /\ last' = Ran("Workspace.tsx handleSaveStep", newStep.content,
                   IF IsNull(editing) THEN "" ELSE Val(editing))
    /\ UNCHANGED workspace
    /\ UNCHANGED <<socket, isConnected, promptsAsked, suggestedPrompts, messages,
                   seqSeen, socketId, isLoading, now>>

\* Workspace.tsx handleDeleteStep, for a step of the rendered list
TsxDeleteStep(id) ==
    /\ Rendered
    /\ ~IsNull(sequence)
    /\ id \in StepIds(Val(sequence).steps)
    /\ sequence' = UpdatedSequence(FilterOut(Val(sequence).steps, id))
    /\ emitted' = UpdateEmits(FilterOut(Val(sequence).steps, id))
    /\ last' = Ran("handleDeleteStep", <<>>, id)
    /\ UNCHANGED workspace
    /\ UNCHANGED <<socket, isConnected, promptsAsked, suggestedPrompts, messages,
                   seqSeen, socketId, isLoading, now>>

\* SequenceDisplay renders its steps, and so has handlers to call, only for a
\* sequence with metadata and at least one step (SequenceDisplay.js 68-99)
DisplayShown == Rendered /\ ~IsNull(sequence) /\ Val(sequence).steps # <<>>

\* what the inline text field of a step holds when Save is pressed
EditedContents == {<<>>, <<"x">>}

\* variant: the refinement is asked for before the edit is sent
SaveClickEmitsRefineFirst(stepId, edited) ==
    IF isConnected
    THEN EmitEvent(ProcessEditEvent(stepId, edited))
         \o (IF EmitOk THEN EmitEvent(EditStepEvent(stepId, edited)) ELSE <<>>)
    ELSE <<>>
\* SequenceDisplay.js handleSaveClick 161-201: the events emitted after onStepUpdate
SaveClickEmits(stepId, edited) ==
    IF isConnected
    THEN EmitEvent(EditStepEvent(stepId, edited))
         \o (IF EmitOk THEN EmitEvent(ProcessEditEvent(stepId, edited)) ELSE <<>>)
    ELSE <<>>
\* the severity of the snackbar handleSaveClick ends with
SaveClickSnackbar ==
    IF isConnected THEN (IF EmitOk THEN "success" ELSE "error") ELSE "warning"

\* SequenceDisplay.js handleSaveClick, `edited` being editableSteps[stepId]
HandleSaveClick(stepId, edited) ==
    /\ DisplayShown
    /\ stepId \in StepIds(Val(sequence).steps)
    /\ LET newSteps == MapContent(Val(sequence).steps, stepId, edited) IN
       /\ sequence' = UpdatedSequence(newSteps)
       /\ emitted' = UpdateEmits(newSteps) \o SaveClickEmits(stepId, edited)
    /\ last' = RanShowing("handleSaveClick", edited, stepId, SaveClickSnackbar)
    /\ UNCHANGED workspace
    /\ UNCHANGED <<socket, isConnected, promptsAsked, suggestedPrompts, messages,
                   seqSeen, socketId, isLoading, now>>

\* SequenceDisplay.js handleDeleteClick
HandleDeleteClick(stepId) ==
    /\ DisplayShown
    /\ stepId \in StepIds(Val(sequence).steps)
    /\ LET newSteps == FilterOut(Val(sequence).steps, stepId) IN
       /\ sequence' = UpdatedSequence(newSteps)
       /\ emitted' = UpdateEmits(newSteps)
    /\ last' = RanShowing("handleDeleteClick", <<>>, stepId, "success")
    /\ UNCHANGED workspace
    /\ UNCHANGED <<socket, isConnected, promptsAsked, suggestedPrompts, messages,
                   seqSeen, socketId, isLoading, now>>

----------------------------------------------------------------------------
(* Workspace.tsx: the Candidates tab and the email dialog *)

\* String.prototype.toLowerCase, token by token
LowerToken(t) ==
    CASE t = "Name" -> "name"
      [] t = "Email" -> "email"
      [] t = "Role" -> "role"
      [] OTHER -> t
ToLowerCase(s) == [i \in DOMAIN s |-> LowerToken(s[i])]

\* String.prototype.split for a separator of one token
RECURSIVE Split(_, _)
Split(s, sep) ==
    IF \E i \in DOMAIN s : s[i] = sep
    THEN LET i == CHOOSE k \in DOMAIN s : s[k] = sep /\ \A j \in 1..(k - 1) : s[j] # sep
         IN  <<SubSeq(s, 1, i - 1)>> \o Split(SubSeq(s, i + 1, Len(s)), sep)
    ELSE <<s>>

\* cells.map(v => v.trim())
TrimAll(cells) == [i \in DOMAIN cells |-> Trim(cells[i])]

\* A Candidate: its own properties in insertion order, as Object.entries lists them
Entry(key, value) == [key |-> key, value |-> value]
\* const candidate: Candidate = { name: '', email: '' }
EmptyCandidate == <<Entry(<<"name">>, <<>>), Entry(<<"email">>, <<>>)>>
HasKey(c, key) == \E i \in DOMAIN c : c[i].key = key
\* candidate[key], the empty text standing for undefined: both are falsy
Field(c, key) ==
    IF HasKey(c, key) THEN c[CHOOSE i \in DOMAIN c : c[i].key = key].value ELSE <<>>
\* candidate[key] = value
SetField(c, key, value) ==
    IF HasKey(c, key)
    THEN [i \in DOMAIN c |-> IF c[i].key = key THEN Entry(key, value) ELSE c[i]]
    ELSE Append(c, Entry(key, value))

\* variant: the header is the key as written
RECURSIVE AssignFieldsAsWritten(_, _, _, _)
AssignFieldsAsWritten(c, headers, values, index) ==
    IF index > Len(headers) THEN c
    ELSE AssignFieldsAsWritten(IF index <= Len(values)
                               THEN SetField(c, headers[index], values[index])
                               ELSE c,
                               headers, values, index + 1)

\* headers.forEach((header, index) => { if (index < values.length)
\*     candidate[header.toLowerCase()] = values[index] }), from the index-th header on
RECURSIVE AssignFields(_, _, _, _)
AssignFields(c, headers, values, index) ==
    IF index > Len(headers) THEN c
    ELSE AssignFields(IF index <= Len(values)
                      THEN SetField(c, ToLowerCase(headers[index]), values[index])
                      ELSE c,
                      headers, values, index + 1)

\* the candidate built from one line of the file
ParseLine(headers, line) == AssignFields(EmptyCandidate, headers, TrimAll(Split(line, ",")), 1)

\* variant: a line with fewer cells than the header is skipped
RECURSIVE ParseLinesSkippingShort(_, _, _)
ParseLinesSkippingShort(headers, lines, i) ==
    IF i > Len(lines) THEN <<>>
    ELSE LET candidate == ParseLine(headers, lines[i])
             rest == ParseLinesSkippingShort(headers, lines, i + 1)
         IN  IF ~Truthy(Trim(lines[i])) THEN rest
             ELSE IF /\ Len(Split(lines[i], ",")) >= Len(headers)
                     /\ Truthy(Field(candidate, <<"name">>))
                     /\ Truthy(Field(candidate, <<"email">>))
                  THEN <<candidate>> \o rest
                  ELSE rest

\* the loop of reader.onload over lines[i..]
RECURSIVE ParseLines(_, _, _)
ParseLines(headers, lines, i) ==
    IF i > Len(lines) THEN <<>>
    ELSE LET candidate == ParseLine(headers, lines[i])
             rest == ParseLines(headers, lines, i + 1)
         IN  IF ~Truthy(Trim(lines[i])) THEN rest
             ELSE IF Truthy(Field(candidate, <<"name">>)) /\ Truthy(Field(candidate, <<"email">>))
                  THEN <<candidate>> \o rest
                  ELSE rest

\* reader.onload: the candidates parsed from the text of the file
ParsedCandidates(text) ==
    LET lines == Split(text, "\n")
        headers == TrimAll(Split(lines[1], ","))
    IN  ParseLines(headers, lines, 2)

\* the text new RegExp(`{${key}}`, 'g') matches, for a key of plain words
Placeholder(key) == <<"{">> \o key \o <<"}">>
StartsWith(s, p) == Len(p) <= Len(s) /\ SubSeq(s, 1, Len(p)) = p
\* s.replace(pattern, value) with the g flag: left to right, the inserted value is
\* not scanned again
RECURSIVE ReplaceAll(_, _, _)
ReplaceAll(s, pattern, value) ==
    IF s = <<>> THEN <<>>
    ELSE IF StartsWith(s, pattern)
         THEN value \o ReplaceAll(SubSeq(s, Len(pattern) + 1, Len(s)), pattern, value)
         ELSE <<Head(s)>> \o ReplaceAll(Tail(s), pattern, value)

\* Object.entries(selectedCandidate).forEach(...), from the i-th entry on
RECURSIVE Personalized(_, _, _)
Personalized(text, c, i) ==
    IF i > Len(c) THEN text
    ELSE Personalized(ReplaceAll(text, Placeholder(c[i].key), c[i].value), c, i + 1)

\* variant: the preview opens with a greeting
PreviewWithGreeting(template, selected) ==
    IF IsNull(selected) \/ ~Truthy(template) THEN template
    ELSE <<"Dear", " ">> \o Personalized(template, Val(selected), 1)

PreviewPersonalizedEmail(template, selected) ==
    IF IsNull(selected) \/ ~Truthy(template) THEN template
    ELSE Personalized(template, Val(selected), 1)

\* the tabs are rendered once there is a sequence (Workspace.tsx 244)
WorkspaceShown == Rendered /\ ~IsNull(sequence)

\* the header lines and data lines of the files chosen
HeaderLines ==
    {<<"name", ",", "email", ",", "role">>,
     <<" ", "Name", ",", "Email", " ">>,
     <<"role", ",", "name">>}
DataLines ==
    {<<"Ann", ",", "ann@x.com", ",", "Eng">>,
     <<"Bob", ",", " ", "bob@x.com">>,
     <<" ", ",", "cy@x.com", ",", "Eng">>,
     <<" ">>,
     <<"{", "email", "}", ",", "{", "name", "}">>,
     <<"Eve", ",", "{", "name", "}", ",", " ">>,
     <<"Dee">>}
RECURSIVE JoinLines(_)
JoinLines(ls) ==
    IF Len(ls) = 1 THEN ls[1] ELSE ls[1] \o <<"\n">> \o JoinLines(Tail(ls))
CsvFiles ==
    {JoinLines(<<h>> \o rows) :
        h \in HeaderLines, rows \in UNION {[1..k -> DataLines] : k \in 0..MaxRows}}

\* handleFileChange with one file picked; one file is picked in a session
HandleFileChange(file) ==
    /\ WorkspaceShown
    /\ IsNull(csvFile)
    /\ csvFile' = Some(file)
    /\ emitted' = <<>>
    /\ last' = Ran("handleFileChange", <<>>, "")
    /\ UNCHANGED <<candidates, selectedCandidate, emailTemplate, preview>>
    /\ UNCHANGED <<socket, isConnected, promptsAsked, suggestedPrompts, messages,
                   sequence, seqSeen, socketId, isLoading, now>>

\* handleFileUpload, through to reader.onload; the Process button is rendered
\* while a file is chosen
HandleFileUpload ==
    /\ WorkspaceShown
    /\ ~IsNull(csvFile)
    /\ candidates' = ParsedCandidates(Val(csvFile))
    /\ emitted' = <<>>
    /\ last' = Ran("handleFileUpload", <<>>, "")
    /\ UNCHANGED <<csvFile, selectedCandidate, emailTemplate, preview>>
    /\ UNCHANGED <<socket, isConnected, promptsAsked, suggestedPrompts, messages,
                   sequence, seqSeen, socketId, isLoading, now>>

\* sequence.steps.find(s => s.type === 'email'), as a list of at most one step
RECURSIVE FindEmailStep(_)
FindEmailStep(steps) ==
    IF steps = <<>> THEN <<>>
    ELSE IF Head(steps).type = "email" THEN <<Head(steps)>>
    ELSE FindEmailStep(Tail(steps))

\* handleOpenEmailDialog for the i-th row of the candidates table, and the dialog
\* rendered after it
HandleOpenEmailDialog(i) ==
    /\ WorkspaceShown
    /\ i \in DOMAIN candidates
    /\ selectedCandidate' = Some(candidates[i])
    /\ emailTemplate' = LET emailStep == FindEmailStep(Val(sequence).steps)
                        IN  IF emailStep # <<>> THEN emailStep[1].content ELSE emailTemplate
    /\ preview' = PreviewPersonalizedEmail(emailTemplate', selectedCandidate')
    /\ emitted' = <<>>
    /\ last' = Ran("handleOpenEmailDialog", <<>>, "")
    /\ UNCHANGED <<csvFile, candidates>>
    /\ UNCHANGED <<socket, isConnected, promptsAsked, suggestedPrompts, messages,
                   sequence, seqSeen, socketId, isLoading, now>>

\* the templates typed into the dialog
Templates ==
    {<<>>,
     <<"Hi", " ", "{", "name", "}">>,
     <<"{", "name", "}", "{", "name", "}">>,
     <<"{", "email", "}", " ", "{", "role", "}">>,
     <<"{", "skills", "}", "{", "Name", "}">>,
     <<"{", "name", " ", "}", "name">>}

\* onChange of the Email Template field (Workspace.tsx 537), the dialog being open,
\* and the dialog rendered after it
SetEmailTemplate(value) ==
    /\ WorkspaceShown
    /\ ~IsNull(selectedCandidate)
    /\ emailTemplate' = value
    /\ preview' = PreviewPersonalizedEmail(value, selectedCandidate)
    /\ emitted' = <<>>
    /\ last' = Ran("setEmailTemplate", <<>>, "")
    /\ UNCHANGED <<csvFile, candidates, selectedCandidate>>
    /\ UNCHANGED <<socket, isConnected, promptsAsked, suggestedPrompts, messages,
                   sequence, seqSeen, socketId, isLoading, now>>

----------------------------------------------------------------------------
(* Specifications *)

AllStepIds == StepIds(ServerSteps) \cup {ToString(t) : t \in 0..MaxClock}

\* the channel and the render cycle
Channel ==
    \/ Mount
    \/ OnConnect
    \/ OnDisconnect
    \/ SuggestedPromptsEffect
    \/ ListenersEffect

\* The chat: every chat input, with the chat_response envelopes in full.
NextChat ==
    \/ Channel
    \/ \E p \in PromptLists : OnSuggestedPrompts(p)
    \/ \E t \in TypedTexts : HandleSubmit(t)
    \/ \E i \in DOMAIN suggestedPrompts : HandlePromptClick(suggestedPrompts[i])
    \/ \E id \in SocketIds : OnConnectionResponse(id)
    \/ \E w \in ChatWire : OnChatResponse(w)
    \/ \E h \in Histories : OnChatHistory(h)

SpecChat == Init /\ [][NextChat]_vars

\* the chat_response events that touch the sequence and append no Message
SequenceWire ==
    {[kind |-> "object", env |-> Envelope("success", Null, Some(a), Some(t), Null)] :
        a \in {"generate_sequence", "edit_sequence_step"}, t \in ToolResults}

\* The inbound side of the sequence: the listeners with every payload, and the
\* clock; chat_history empties the chat.
NextInbound ==
    \/ Channel
    \/ Tick
    \/ \E w \in SequenceWire : OnChatResponse(w)
    \/ OnChatHistory(<<>>)
    \/ \E d \in SequenceUpdatedData : OnSequenceUpdated(d)
    \/ \E id \in RefinedIds, c \in RefinedContents : OnStepRefined(id, c)

SpecInbound == Init /\ [][NextInbound]_vars

\* what the server sends while the user edits: a generated sequence, the answer to
\* an edit, a pushed step array, a refined step
EditWire ==
    {[kind |-> "object", env |-> Envelope("success", Null, Some(a), Some(ToolJSON(o)), Null)] :
        a \in {"generate_sequence", "edit_sequence_step"}, o \in {GeneratedObj, EditedObj}}
EditUpdates ==
    {[kind |-> "array", steps |-> ServerSteps],
     [kind |-> "object", metadata |-> Some(Metadata("Designer", "g2")), steps |-> Null]}
\* the contents typed into a step under edit, and sent back refined
TypedContents == {c \in EditedContents : Truthy(c)}

\* The sequence under edit: every handler that writes it and every editor; the
\* contents typed inline are non-blank.
NextSeq ==
    \/ Channel
    \/ Tick
    \/ \E w \in EditWire : OnChatResponse(w)
    \/ OnChatHistory(<<>>)
    \/ \E d \in EditUpdates : OnSequenceUpdated(d)
    \/ \E id \in RefinedIds, c \in TypedContents : OnStepRefined(id, c)
    \/ \E n \in NewSteps : JsSaveStep(n)
    \/ \E e \in {Null} \cup {Some(id) : id \in AllStepIds}, n \in NewSteps : TsxSaveStep(e, n)
    \/ \E id \in AllStepIds : TsxDeleteStep(id)
    \/ \E id \in AllStepIds, c \in TypedContents : HandleSaveClick(id, c)
    \/ \E id \in AllStepIds : HandleDeleteClick(id)

SpecSeq == Init /\ [][NextSeq]_vars

\* the chat_response that brings a generated sequence
GeneratedWire ==
    [kind |-> "object",
     env |-> Envelope("success", Null, Some("generate_sequence"), Some(ToolJSON(GeneratedObj)), Null)]

\* The Candidates tab: the client connects, a sequence is generated, a file is
\* chosen and processed, a candidate's email dialog is opened and its template edited.
NextWorkspace ==
    \/ Channel
    \/ OnChatResponse(GeneratedWire)
    \/ \E f \in CsvFiles : HandleFileChange(f)
    \/ HandleFileUpload
    \/ \E i \in DOMAIN candidates : HandleOpenEmailDialog(i)
    \/ \E t \in Templates : SetEmailTemplate(t)

SpecWorkspace == Init /\ [][NextWorkspace]_vars

\* the file and the template used while a request is in flight
LoadingFile == <<"name", ",", "email", "\n", "Ann", ",", "ann@x.com">>
LoadingTemplate == <<"Hi", " ", "{", "name", "}">>

\* A request in flight: a text is submitted and, before or after its response, every
\* other event arrives and every editor of the sequence and of the candidates is used.
NextLoading ==
    \/ Channel
    \/ HandleSubmit(<<"a">>)
    \/ \E id \in SocketIds : OnConnectionResponse(id)
    \/ OnChatResponse(GeneratedWire)
    \/ OnChatHistory(<<>>)
    \/ OnSequenceUpdated([kind |-> "array", steps |-> SubSeq(ServerSteps, 1, 1)])
    \/ \E c \in TypedContents : OnStepRefined("s1", c)
    \/ JsSaveStep(NewStep("call", <<"n">>, 2, <<"t">>))
    \/ \E e \in {Null, Some("s1")} : TsxSaveStep(e, NewStep("call", <<"n">>, 2, <<"t">>))
    \/ TsxDeleteStep("s1")
    \/ \E c \in TypedContents : HandleSaveClick("s1", c)
    \/ HandleDeleteClick("s1")
    \/ HandleFileChange(LoadingFile)
    \/ HandleFileUpload
    \/ \E i \in DOMAIN candidates : HandleOpenEmailDialog(i)
    \/ SetEmailTemplate(LoadingTemplate)

SpecLoading == Init /\ [][NextLoading]_vars

\* The chat_response listener alone: every payload, on a chat that chat_history
\* empties.
NextResponse ==
    \/ Channel
    \/ \E w \in ChatWire : OnChatResponse(w)
    \/ OnChatHistory(<<>>)

SpecResponse == Init /\ [][NextResponse]_vars

\* the steps the editors are used on
EditedIds == {"s1", "s2"}

\* The editors of the sequence, before and after a sequence is generated, connected
\* and not, with blank and non-blank contents.
NextEdit ==
    \/ Channel
    \/ OnChatResponse(GeneratedWire)
    \/ \E n \in NewSteps : JsSaveStep(n)
    \/ \E e \in {Null} \cup {Some(id) : id \in EditedIds}, n \in NewSteps : TsxSaveStep(e, n)
    \/ \E id \in EditedIds : TsxDeleteStep(id)
    \/ \E id \in EditedIds, c \in EditedContents : HandleSaveClick(id, c)
    \/ \E id \in EditedIds : HandleDeleteClick(id)

SpecEdit == Init /\ [][NextEdit]_vars


----------------------------------------------------------------------------
(* Properties *)

\* the two ways to submit a chat text
IsSubmit(l) == l.op \in {"handleSubmit", "handlePromptClick"}
\* the text a submission hands on: the form trims it, a prompt goes as it is
Submitted(l) == IF l.op = "handleSubmit" THEN Trim(l.text) ELSE l.text
\* exactly one event was emitted, a chat_message carrying the text
EmittedChatMessage(e, text) ==
    Len(e) = 1 /\ e[1].event = "chat_message" /\ e[1].message = text

\* C1, as amended: a submission whose text is non-empty once trimmed, made while
\* isConnected is true and isLoading is false, appends exactly one Message with
\* sender 'user' and the submitted text (trimmed by the form) to the end of the
\* message list, sets isLoading and emits exactly one chat_message with that text;
\* all in the one step of the handler, so before any chat_response.
C1_SubmitAppendsOne ==
    [][(IsSubmit(last') /\ Truthy(Trim(last'.text)) /\ isConnected /\ ~isLoading)
        => /\ messages' = Append(messages, Message(Submitted(last'), "user"))
           /\ isLoading'
           /\ EmittedChatMessage(emitted', Submitted(last'))]_vars

\* C1: the form has submitted a text with blanks around it, and its trimmed text
\* is the last message
C1_Witness ==
    /\ last.op = "handleSubmit" /\ Trim(last.text) # last.text /\ Truthy(Trim(last.text))
    /\ messages # <<>> /\ messages[Len(messages)] = Message(Trim(last.text), "user")
    /\ isLoading /\ EmittedChatMessage(emitted, Trim(last.text))

\* C1 as stated: every non-empty text submitted while isConnected is appended as it
\* is, whatever isLoading is
C1_AsStated ==
    [][(IsSubmit(last') /\ Truthy(last'.text) /\ isConnected)
        => /\ messages' = Append(messages, Message(last'.text, "user"))
           /\ isLoading'
           /\ EmittedChatMessage(emitted', last'.text)]_vars

\* C2 as stated: a submission, by the form or by a click on a suggested prompt, made
\* while disconnected or with a text that is empty or blanks only, leaves the
\* message list, isLoading and the Sequence as they were and emits nothing.
C2_AsStated ==
    [][(IsSubmit(last') /\ (~isConnected \/ ~Truthy(Trim(last'.text))))
        => /\ messages' = messages
           /\ isLoading' = isLoading
           /\ sequence' = sequence
           /\ emitted' = <<>>]_vars

\* C3: a chat_response whose decoded envelope has status "success" and a chat text
\* (a non-empty chat_response field) appends exactly one Message, with sender 'ai'
\* and exactly that text, to the message list, whatever its action and tool_result.
C3_ChatTextAppended ==
    [][(last'.op = "chat_response" /\ last'.status = "success" /\ Truthy(last'.text))
        => messages' = Append(messages, Message(last'.text, "ai"))]_vars

\* C3: a response carrying a chat text, the generate_sequence action and a tool
\* result that was stored as the Sequence has been handled; its text is the last
\* message
C3_Witness ==
    /\ last.op = "chat_response" /\ last.id = "generate_sequence" /\ Truthy(last.text)
    /\ ~IsNull(sequence) /\ IsNull(seqSeen)
    /\ messages # <<>> /\ messages[Len(messages)] = Message(last.text, "ai")

\* a sequence_updated payload that carries steps, and those steps
CarriesSteps(d) == d.kind = "array" \/ (d.kind = "object" /\ ~IsNull(d.steps))
PayloadSteps(d) == IF d.kind = "array" THEN d.steps ELSE Val(d.steps)
\* the metadata the Sequence is to have after a payload: the payload's when given,
\* else that of the Sequence held, else the default
MergedMetadata(d, held) ==
    IF d.kind = "object" /\ ~IsNull(d.metadata) THEN Val(d.metadata)
    ELSE IF ~IsNull(held) THEN Val(held).metadata
    ELSE DefaultMetadata

\* C4 as stated: after a sequence_updated event whose data is a bare step array, an
\* object {steps} or an object {metadata, steps}, the Sequence exists, its steps are
\* the payload's, and its metadata is the payload's when given, otherwise that of
\* the Sequence held before the event when there was one, otherwise the default.
C4_AsStated ==
    [][last'.op = "sequence_updated" =>
        \A d \in SequenceUpdatedData :
            (CarriesSteps(d) /\ OnSequenceUpdated(d))
            => sequence' = Some(Sequence(MergedMetadata(d, sequence), PayloadSteps(d)))]_vars

\* C4: what does hold of the handler: the metadata kept is that of the Sequence the
\* registered listener closed over, which is the Sequence held only once the
\* listeners effect has run again
C4_MergesIntoSeen ==
    [][last'.op = "sequence_updated" =>
        \A d \in SequenceUpdatedData :
            (CarriesSteps(d) /\ OnSequenceUpdated(d))
            => sequence' = Some(Sequence(MergedMetadata(d, seqSeen), PayloadSteps(d)))]_vars

DistinctIds(steps) ==
    \A i, j \in DOMAIN steps : i # j => steps[i].id # steps[j].id

\* C5 as stated: in every reachable state in which a Sequence exists, the ids of its
\* steps are pairwise distinct.
C5_AsStated == ~IsNull(sequence) => DistinctIds(Val(sequence).steps)

IsMetadata(m) ==
    DOMAIN m = {"role", "industry", "seniority", "company_type", "generated_at"}
IsStep(st) == DOMAIN st = {"id", "type", "content", "delay", "personalization_tips"}
IsStepList(steps) ==
    /\ DOMAIN steps = 1..Len(steps)
    /\ \A i \in 1..Len(steps) : IsStep(steps[i])

\* C6: in every reachable state the Sequence is absent (null), or it is an object of
\* exactly a metadata, which is a metadata object and not null, and a steps, which
\* is a list of steps; no handler stores anything else.
C6_SequenceWellFormed ==
    \/ IsNull(sequence)
    \/ /\ Len(sequence) = 1
       /\ DOMAIN Val(sequence) = {"metadata", "steps"}
       /\ IsMetadata(Val(sequence).metadata)
       /\ IsStepList(Val(sequence).steps)

\* C6: the answer to an edit, which carries steps and no metadata, has been handled
\* with no Sequence to merge into, and the Sequence stored has the default metadata
C6_Witness ==
    /\ last.op = "chat_response" /\ last.id = "edit_sequence_step"
    /\ IsNull(seqSeen) /\ ~IsNull(sequence)
    /\ Val(sequence) = Sequence(DefaultMetadata, SubSeq(ServerSteps, 1, 1))

IsDelete(l) == l.op \in {"handleDeleteStep", "handleDeleteClick"}
\* the list without its k-th element
RemoveAt(steps, k) == SubSeq(steps, 1, k - 1) \o SubSeq(steps, k + 1, Len(steps))
\* the list without the elements of an id, the others in their order
RECURSIVE WithoutId(_, _)
WithoutId(steps, id) ==
    IF steps = <<>> THEN <<>>
    ELSE (IF Head(steps).id = id THEN <<>> ELSE <<Head(steps)>>) \o WithoutId(Tail(steps), id)

\* C7 as stated: deleting a step by id, while connected and with a Sequence present,
\* yields the previous list with exactly the one step of that id removed and every
\* other step kept in its previous relative order.
C7_AsStated ==
    [][(IsDelete(last') /\ isConnected /\ ~IsNull(sequence))
        => /\ ~IsNull(sequence')
           /\ \E k \in DOMAIN Val(sequence).steps :
                /\ Val(sequence).steps[k].id = last'.id
                /\ Val(sequence').steps = RemoveAt(Val(sequence).steps, k)]_vars

\* C7: what does hold: every step of that id is removed, and the others are kept in
\* their order, with the metadata
C7_RemovesEveryStepOfId ==
    [][(IsDelete(last') /\ isConnected /\ ~IsNull(sequence))
        => sequence' = Some(Sequence(Val(sequence).metadata,
                                     WithoutId(Val(sequence).steps, last'.id)))]_vars

\* C8 as stated: with steps [A, B, C] and the client connected, saving B with its
\* content edited to X makes the local steps [A, B with content X, C], A and C and
\* the metadata unchanged, and emits a sequence_update carrying exactly that list.
C8_AsStated ==
    [][(/\ last'.op = "handleSaveClick" /\ isConnected /\ ~IsNull(sequence)
        /\ Len(Val(sequence).steps) = 3 /\ Val(sequence).steps[2].id = last'.id)
        => LET saved == [Val(sequence).steps EXCEPT ![2].content = last'.text] IN
           /\ sequence' = Some(Sequence(Val(sequence).metadata, saved))
           /\ \E i \in DOMAIN emitted' : emitted'[i] = SequenceUpdateEvent(saved)]_vars

\* C8: what does hold: every step of B's id takes the content X, the others and the
\* metadata are unchanged, and that list is what sequence_update carries
C8_SavesEveryStepOfId ==
    [][(last'.op = "handleSaveClick" /\ isConnected /\ ~IsNull(sequence))
        => LET saved == MapContent(Val(sequence).steps, last'.id, last'.text) IN
           /\ sequence' = Some(Sequence(Val(sequence).metadata, saved))
           /\ emitted'[1] = SequenceUpdateEvent(saved)]_vars

IsEdit(l) ==
    l.op \in {"Workspace.js handleSaveStep", "Workspace.tsx handleSaveStep",
              "handleDeleteStep", "handleSaveClick", "handleDeleteClick"}

\* C9: while isConnected is false, an add, a delete or a save of the sequence editor
\* emits no event at all and ends in no error (the error path of a handler shows a
\* snackbar of severity 'error').
C9_DisconnectedEditEmitsNothing ==
    [][(IsEdit(last') /\ ~isConnected) => (emitted' = <<>> /\ last'.shown # "error")]_vars

\* C9: after a disconnect with a Sequence on display, an inline save has run: it
\* emitted nothing and warned that the socket is disconnected
C9_Witness ==
    /\ last.op = "handleSaveClick" /\ ~isConnected /\ ~IsNull(sequence)
    /\ emitted = <<>> /\ last.shown = "warning"

\* C10 as stated: while the channel is disconnected (isConnected false), no handler
\* hands an outbound event of any kind to the socket.
C10_AsStated == [][~isConnected => emitted' = <<>>]_vars

\* a chat_message is among the events emitted
EmitsChatMessage(e) == \E i \in DOMAIN e : e[i].event = "chat_message"

\* C11: a client never has two chat requests in flight. isLoading is true exactly
\* from the emission of a chat_message to the next chat_response handled: a
\* chat_message is emitted only by a step that starts with isLoading false and ends
\* with it true, and isLoading goes from true to false only by handling a
\* chat_response; so between a chat_message and the next chat_response no step, of
\* any handler in any interleaving, emits a chat_message.
C11_OneRequestInFlight ==
    [][/\ EmitsChatMessage(emitted') => (~isLoading /\ isLoading')
       /\ isLoading => ~EmitsChatMessage(emitted')
       /\ (isLoading /\ ~isLoading') => last'.op = "chat_response"]_vars

\* C11: with a request in flight and the connection up, the form has been submitted
\* with a text and nothing was emitted
C11_Witness ==
    /\ last.op = "handleSubmit" /\ Truthy(Trim(last.text))
    /\ isConnected /\ isLoading /\ emitted = <<>>
    /\ messages # <<>> /\ messages[Len(messages)].sender = "user"

\* C12: every connection_response handled, on the first connection and on any later
\* one, stores the socket_id received and emits exactly one event, get_chat_history.
C12_ConnectionResponseAsksHistory ==
    [][last'.op = "connection_response"
        => (socketId' = Some(last'.id) /\ emitted' = <<Event("get_chat_history")>>)]_vars

\* C12: a connection_response has been handled in the middle of a session (a
\* request is in flight, so this is not the start of the first connection): the id
\* is stored and get_chat_history is the one event emitted
C12_Witness ==
    /\ last.op = "connection_response" /\ socketId = Some(last.id)
    /\ emitted = <<Event("get_chat_history")>>
    /\ isLoading /\ messages # <<>>

IsPrefix(a, b) == Len(a) <= Len(b) /\ SubSeq(b, 1, Len(a)) = a

\* C13 as stated: a Message once appended is never removed, altered or reordered:
\* over every step (submission, chat_response, chat_history, step_refined,
\* connection_response) the earlier message list is a prefix of the later one.
C13_AsStated == [][IsPrefix(messages, messages')]_vars

\* C13 amended: every handler but chat_history leaves the earlier list as a prefix
\* of the later one, a response being appended even when an equal message is
\* already there; chat_history puts the replayed history, in its order, in place
\* of the list
C13_OnlyHistoryReplaces ==
    [][IF last'.op = "chat_history"
       THEN \E h \in Histories :
                messages' = [i \in DOMAIN h |-> Message(h[i].text, h[i].sender)]
       ELSE /\ IsPrefix(messages, messages')
            /\ (last'.op = "chat_response" /\ last'.status = "success"
                    /\ Truthy(last'.text))
                   => /\ Len(messages') > Len(messages)
                      /\ messages'[Len(messages) + 1] = Message(last'.text, "ai")]_vars

\* the same response handled twice stands twice in the list
C13_Witness ==
    /\ last.op = "chat_response" /\ last.status = "success"
    /\ Len(messages) = 2 /\ messages[1] = messages[2]
    /\ messages[2] = Message(last.text, "ai")

\* the text holds the placeholder of some key of the candidate
HasPlaceholder(text, c) ==
    \E i \in DOMAIN c, k \in DOMAIN text :
        StartsWith(SubSeq(text, k, Len(text)), Placeholder(c[i].key))

RECURSIVE Substituted(_, _)
Substituted(text, c) ==
    IF text = <<>> THEN <<>>
    ELSE IF \E i \in DOMAIN c : StartsWith(text, Placeholder(c[i].key))
         THEN LET i == CHOOSE j \in DOMAIN c : StartsWith(text, Placeholder(c[j].key))
              IN  c[i].value
                  \o Substituted(SubSeq(text, Len(Placeholder(c[i].key)) + 1, Len(text)), c)
         ELSE <<Head(text)>> \o Substituted(Tail(text), c)

\* C15 as stated: the preview is the template with every occurrence of {key}
\* replaced by the Candidate's value for each key the Candidate has, and every
\* other placeholder left intact.
C15_AsStated ==
    ~IsNull(selectedCandidate)
        => preview = Substituted(emailTemplate, Val(selectedCandidate))

\* the header cells and the data rows of a file, each cell trimmed
HeaderCells(text) == TrimAll(Split(Split(text, "\n")[1], ","))
DataRows(text) ==
    LET lines == Split(text, "\n")
    IN  [i \in 1..(Len(lines) - 1) |-> TrimAll(Split(lines[i + 1], ","))]
\* the name of the column at position p
ColumnKey(headers, p) == ToLowerCase(headers[p])
\* the row has a non-empty cell under the column named key
HasCell(headers, values, key) ==
    \E p \in DOMAIN headers \cap DOMAIN values :
        ColumnKey(headers, p) = <<key>> /\ values[p] # <<>>
RowKept(headers, values) == HasCell(headers, values, "name") /\ HasCell(headers, values, "email")
\* the candidate holds, under each column name, the cell of the row at the column's
\* position, and nothing else but name and email
CandidateOfRow(c, headers, values) ==
    /\ \A p \in DOMAIN headers \cap DOMAIN values :
           HasKey(c, ColumnKey(headers, p)) /\ Field(c, ColumnKey(headers, p)) = values[p]
    /\ \A i \in DOMAIN c :
           \/ c[i].key \in {<<"name">>, <<"email">>}
           \/ \E p \in DOMAIN headers \cap DOMAIN values : c[i].key = ColumnKey(headers, p)
    /\ \A i, j \in DOMAIN c : c[i].key = c[j].key => i = j

\* C16: after a file is processed the candidates are, in file order, the data rows
\* whose name and email cells are non-empty after trimming, each mapping every
\* trimmed, lower-cased header to the trimmed cell at the same position
C16_KeepsNamedRowsInOrder ==
    last.op = "handleFileUpload" =>
        LET headers == HeaderCells(Val(csvFile))
            kept == SelectSeq(DataRows(Val(csvFile)), LAMBDA v : RowKept(headers, v))
        IN  /\ Len(candidates) = Len(kept)
            /\ \A j \in DOMAIN kept : CandidateOfRow(candidates[j], headers, kept[j])

\* header name,email,role with row Ann,ann@x.com,Eng and a row without a name
C16_Witness ==
    /\ last.op = "handleFileUpload"
    /\ csvFile = Some(<<"name", ",", "email", ",", "role", "\n",
                        " ", ",", "cy@x.com", ",", "Eng", "\n",
                        "Ann", ",", "ann@x.com", ",", "Eng">>)
    /\ candidates = << <<Entry(<<"name">>, <<"Ann">>), Entry(<<"email">>, <<"ann@x.com">>),
                         Entry(<<"role">>, <<"Eng">>)>> >>

\* the row has fewer cells than the header
IsShort(headers, values) == Len(values) < Len(headers)
HasColumn(headers, key) == \E p \in DOMAIN headers : ColumnKey(headers, p) = <<key>>

\* C17 as stated: a row with fewer fields than the header, and every row of a file
\* whose header lacks the name or the email column, produces no Candidate: the
\* candidates are as many as the rows kept that are not short.
C17_AsStated ==
    last.op = "handleFileUpload" =>
        LET headers == HeaderCells(Val(csvFile))
            full == SelectSeq(DataRows(Val(csvFile)),
                              LAMBDA v : RowKept(headers, v) /\ ~IsShort(headers, v))
        IN  Len(candidates) = Len(full)

\* C17 amended: a short row produces no Candidate when name or email is not among
\* the cells it has, and otherwise a Candidate without the columns it lacks; a file
\* whose header lacks name or email produces no Candidate; nothing is reported
C17_SkipsRowsWithoutNameOrEmail ==
    last.op = "handleFileUpload" =>
        LET headers == HeaderCells(Val(csvFile))
            rows == DataRows(Val(csvFile))
            kept == SelectSeq(rows, LAMBDA v : RowKept(headers, v))
            short == SelectSeq(rows, LAMBDA v : RowKept(headers, v) /\ IsShort(headers, v))
        IN  /\ (~HasColumn(headers, "name") \/ ~HasColumn(headers, "email")) => candidates = <<>>
            /\ Len(candidates) = Len(kept)
            /\ Len(SelectSeq(candidates, LAMBDA c : Len(c) < Len(headers))) = Len(short)
            /\ \A j \in DOMAIN candidates : \A p \in DOMAIN headers \ DOMAIN kept[j] :
                   ~HasKey(candidates[j], ColumnKey(headers, p))
            /\ last.shown = "none" /\ emitted = <<>>

\* a row without the role cell is kept, a row without the email cell is not
C17_Witness ==
    /\ last.op = "handleFileUpload"
    /\ csvFile = Some(<<"name", ",", "email", ",", "role", "\n",
                        "Bob", ",", " ", "bob@x.com", "\n", "Dee">>)
    /\ candidates = << <<Entry(<<"name">>, <<"Bob">>), Entry(<<"email">>, <<"bob@x.com">>)>> >>

\* C18: handling a chat_response leaves isLoading false, whatever was received:
\* a success, an error status, another status, or data that does not decode
C18_ResponseStopsLoading ==
    [][last'.op = "chat_response" => ~isLoading']_vars

\* a submission was awaiting its response and the response did not decode
C18_Witness ==
    /\ last.op = "chat_response" /\ last.status = ""
    /\ ~isLoading
    /\ messages = <<Message(<<"a">>, "user"), Message(ApologyText, "ai")>>

\* C19: while isLoading is true, every step other than the handling of a
\* chat_response leaves it true: disconnect, reconnect, connection_response,
\* chat_history, sequence_updated, step_refined and the editors do not clear it
C19_OnlyResponseStopsLoading ==
    [][(isLoading /\ last'.op # "chat_response") => isLoading']_vars

\* loading outlasts a lost connection and an edit of the sequence
C19_Witness ==
    /\ isLoading /\ ~isConnected
    /\ last.op \in {"handleDeleteStep", "handleDeleteClick", "handleSaveClick",
                    "Workspace.tsx handleSaveStep", "Workspace.js handleSaveStep"}
    /\ messages # <<>> /\ messages[Len(messages)].sender = "user"

\* C20 as stated: when the data of a chat_response is no JSON, or the tool_result of
\* a generate_sequence or edit_sequence_step response is no JSON, the handler appends
\* one apology Message with sender 'ai', leaves the Sequence as it is and emits nothing.
C20_AsStated ==
    [][(last'.op = "chat_response" /\ last'.decoded \in {"no JSON", "tool_result no JSON"})
        => /\ messages' = Append(messages, Message(ApologyText, "ai"))
           /\ sequence' = sequence
           /\ emitted' = <<>>]_vars

\* a chat_response payload of SequenceWire with the given action, and what its
\* tool_result decodes to
HasAction(w, a) == IsAction(w.env, a)
Decoded(w) == ParseTool(Val(w.env.tool_result))

\* C21 as stated: a successful chat_response with action generate_sequence and a
\* tool_result that decodes to an object makes the Sequence that object: its
\* metadata and its steps are the decoded ones.
C21_AsStated ==
    [][(last'.op = "chat_response" /\ last'.id = "generate_sequence") =>
        \A w \in SequenceWire :
            (HasAction(w, "generate_sequence") /\ Decoded(w).kind = "object"
             /\ OnChatResponse(w))
            => /\ ~IsNull(sequence')
               /\ Some(Val(sequence').metadata) = Decoded(w).obj.metadata
               /\ Some(Val(sequence').steps) = Decoded(w).obj.steps]_vars

\* C21 amended: when the decoded tool_result has both metadata and steps, the
\* Sequence becomes exactly that metadata and those steps, nothing of the Sequence
\* held being kept; when it lacks either, the Sequence is left as it was
C21_ReplacesWhenWellFormed ==
    [][(last'.op = "chat_response" /\ last'.id = "generate_sequence") =>
        \A w \in SequenceWire :
            (HasAction(w, "generate_sequence") /\ Decoded(w).kind = "object"
             /\ OnChatResponse(w))
            => IF ~IsNull(Decoded(w).obj.metadata) /\ ~IsNull(Decoded(w).obj.steps)
               THEN sequence' = Some(Sequence(Val(Decoded(w).obj.metadata),
                                              Val(Decoded(w).obj.steps)))
               ELSE sequence' = sequence]_vars

\* a generated sequence has taken the place of a Sequence with other metadata
C21_Witness ==
    /\ last.op = "chat_response" /\ last.id = "generate_sequence"
    /\ last.decoded = "tool_result object"
    /\ ~IsNull(seqSeen) /\ Val(seqSeen).metadata = Metadata("Designer", "g2")
    /\ sequence = Some(Sequence(Metadata("Engineer", "g1"), ServerSteps))

\* the tool_result of an edit_sequence_step response reports success and carries steps
EditSucceeded(w) ==
    /\ HasAction(w, "edit_sequence_step") /\ Decoded(w).kind = "object"
    /\ Decoded(w).obj.status = Some("success") /\ ~IsNull(Decoded(w).obj.sequence)

\* C22 as stated: a successful chat_response with action edit_sequence_step puts the
\* returned steps into the existing Sequence, whose metadata is kept unchanged; when
\* no Sequence exists it creates one with the default metadata.
C22_AsStated ==
    [][(last'.op = "chat_response" /\ last'.id = "edit_sequence_step") =>
        \A w \in SequenceWire :
            (EditSucceeded(w) /\ OnChatResponse(w))
            => sequence' = Some(Sequence(IF IsNull(sequence) THEN DefaultMetadata
                                         ELSE Val(sequence).metadata,
                                         Val(Decoded(w).obj.sequence)))]_vars

\* C22: what does hold of the handler: the metadata kept is that of the Sequence the
\* registered listener closed over
C22_MergesIntoSeen ==
    [][(last'.op = "chat_response" /\ last'.id = "edit_sequence_step") =>
        \A w \in SequenceWire :
            (EditSucceeded(w) /\ OnChatResponse(w))
            => sequence' = Some(Sequence(IF IsNull(seqSeen) THEN DefaultMetadata
                                         ELSE Val(seqSeen).metadata,
                                         Val(Decoded(w).obj.sequence)))]_vars

\* the success envelopes without chat text that a run of the chat_response handler
\* recorded as l may have handled: they differ in their tool_result
NoChatText == {Null, Some(<<>>)}
ToolResultOpts == {Null} \cup {Some(t) : t \in ToolResults}
WireOf(l, cr, tr) ==
    [kind |-> "object",
     env |-> Envelope("success", cr, IF l.id = "" THEN Null ELSE Some(l.id), tr, Null)]

\* C23: a chat_response with status "success" and no chat text appends one 'ai'
\* Message with the canned "refined" text when its action is modify_sequence, and
\* one 'ai' Message with the tool_result as it is when it has a tool_result and no
\* action
C23_ToolResultOrRefined ==
    [][(/\ last'.op = "chat_response" /\ last'.status = "success" /\ ~Truthy(last'.text)
        /\ last'.id \in {"", "modify_sequence"}) =>
        \A cr \in NoChatText, tr \in ToolResultOpts :
            OnChatResponse(WireOf(last', cr, tr))
            => /\ last'.id = "modify_sequence"
                    => messages' = Append(messages, Message(RefinedText, "ai"))
               /\ (last'.id = "" /\ TruthyOpt(tr))
                    => messages' = Append(messages, Message(Val(tr), "ai"))]_vars

\* a tool_result that is no JSON, sent without action and chat text, is the last
\* message
C23_Witness ==
    /\ last.op = "chat_response" /\ last.status = "success" /\ last.id = ""
    /\ ~Truthy(last.text)
    /\ messages # <<>> /\ messages[Len(messages)] = Message(<<"Done", "!">>, "ai")

\* C30: handling one chat_response appends at most one Message, whatever the
\* envelope, and none for a success with action generate_sequence or
\* edit_sequence_step and no chat text
C30_AtMostOneMessage ==
    [][last'.op = "chat_response"
        => /\ Len(messages') <= Len(messages) + 1
           /\ IsPrefix(messages, messages')
           /\ (/\ last'.status = "success" /\ ~Truthy(last'.text)
               /\ last'.id \in {"generate_sequence", "edit_sequence_step"})
                  => messages' = messages]_vars

\* a modify_sequence response with a chat text has been handled on an empty chat:
\* its text is the one message
C30_Witness ==
    /\ last.op = "chat_response" /\ last.status = "success"
    /\ last.id = "modify_sequence" /\ Truthy(last.text)
    /\ messages = <<Message(last.text, "ai")>>

\* a step_refined event that names a step and carries a content
IsRefinement(l) == l.op = "step_refined" /\ l.id # "" /\ Truthy(l.text)

\* C24 as stated: handling step_refined {step_id, refined_content} while a Sequence
\* exists gives the step of that id the refined content, in place: the number and
\* order of the steps, the other fields of that step, the other steps and the
\* metadata are those of the Sequence held before the event.
C24_AsStated ==
    [][(IsRefinement(last') /\ ~IsNull(sequence))
        => sequence' = Some(Sequence(Val(sequence).metadata,
                                     MapContent(Val(sequence).steps, last'.id, last'.text)))]_vars

\* C24: what does hold of the handler: the content is replaced in the Sequence the
\* registered listener closed over, and that Sequence is stored
C24_RefinesSeen ==
    [][(IsRefinement(last') /\ ~IsNull(seqSeen))
        => sequence' = Some(Sequence(Val(seqSeen).metadata,
                                     MapContent(Val(seqSeen).steps, last'.id, last'.text)))]_vars

\* C25: an inline save made while connected stores the edited text as the content
\* of the step in the local Sequence and emits, after the sequence_update of that
\* local update, edit_sequence_step {step_id, new_content} and then process_edit
\* {step_id, content, request}, both with the edited text; whether connected or not,
\* a process_edit is emitted only after an edit_sequence_step
C25_SaveEmitsEditThenRefine ==
    [][last'.op = "handleSaveClick"
        => /\ isConnected
              => /\ \A i \in DOMAIN Val(sequence').steps :
                        Val(sequence').steps[i].id = last'.id
                            => Val(sequence').steps[i].content = last'.text
                 /\ emitted' = <<SequenceUpdateEvent(Val(sequence').steps),
                                 EditStepEvent(last'.id, last'.text),
                                 ProcessEditEvent(last'.id, last'.text)>>
           /\ \A j \in DOMAIN emitted' :
                  emitted'[j].event = "process_edit"
                      => \E i \in 1..(j - 1) : emitted'[i].event = "edit_sequence_step"]_vars

\* a connected inline save has sent its three events, the edited text in each
C25_Witness ==
    /\ last.op = "handleSaveClick" /\ isConnected /\ last.text = <<"x">>
    /\ Len(emitted) = 3
    /\ emitted[2] = EditStepEvent(last.id, <<"x">>)
    /\ emitted[3] = ProcessEditEvent(last.id, <<"x">>)
    /\ \E i \in DOMAIN Val(sequence).steps :
           Val(sequence).steps[i].id = last.id /\ Val(sequence).steps[i].content = <<"x">>

\* the sequence_update events among the events emitted
SequenceUpdates(e) == SelectSeq(e, LAMBDA ev : ev.event = "sequence_update")

\* C26: an add, edit, delete or save emits at most one sequence_update; it emits
\* one whenever it changes the Sequence, and whenever it hands a step array to
\* handleSequenceUpdate while connected and with a Sequence; and when it emits one,
\* the event carries the full step array that is now the local one, and the
\* metadata is unchanged
C26_UpdateCarriesLocalSteps ==
    [][IsEdit(last')
        => /\ Len(SequenceUpdates(emitted')) <= 1
           /\ sequence' # sequence => Len(SequenceUpdates(emitted')) = 1
           /\ (/\ isConnected /\ ~IsNull(sequence)
               /\ (IsDelete(last') \/ last'.op = "handleSaveClick" \/ Truthy(last'.text)))
                  => Len(SequenceUpdates(emitted')) = 1
           /\ Len(SequenceUpdates(emitted')) = 1
                => /\ ~IsNull(sequence) /\ ~IsNull(sequence')
                   /\ SequenceUpdates(emitted')[1] = SequenceUpdateEvent(Val(sequence').steps)
                   /\ Val(sequence').metadata = Val(sequence).metadata]_vars

\* a step has been added through the dialog: the list with the new step is both
\* the local one and the one sent
C26_Witness ==
    /\ last.op = "Workspace.tsx handleSaveStep" /\ last.id = ""
    /\ ~IsNull(sequence) /\ Len(Val(sequence).steps) = MaxSteps
    /\ Val(sequence).steps[MaxSteps].content = <<"n">>
    /\ emitted = <<SequenceUpdateEvent(Val(sequence).steps)>>
    /\ Val(sequence).metadata = Metadata("Engineer", "g1")

\* C27: with no Sequence, an add, edit, delete or save leaves the Sequence absent
\* and emits no event
C27_NoSequenceNoEdit ==
    [][(IsEdit(last') /\ IsNull(sequence)) => (IsNull(sequence') /\ emitted' = <<>>)]_vars

\* a step with content was saved from the dialog, connected, with no Sequence
C27_Witness ==
    /\ last.op \in {"Workspace.js handleSaveStep", "Workspace.tsx handleSaveStep"}
    /\ Truthy(last.text) /\ isConnected /\ IsNull(sequence) /\ emitted = <<>>

\* the handlers that write the content of a step
WritesContent(l) ==
    l.op \in {"Workspace.js handleSaveStep", "Workspace.tsx handleSaveStep", "handleSaveClick"}

\* C28 as stated: on every path that writes step content (add step, dialog edit,
\* inline save), an empty content leaves the Sequence unchanged and emits no
\* sequence_update, edit_sequence_step or process_edit.
C28_AsStated ==
    [][(WritesContent(last') /\ ~Truthy(last'.text))
        => (sequence' = sequence /\ emitted' = <<>>)]_vars

\* C29 as stated: no inbound sequence change is lost. Each handler that changes
\* the steps (sequence_updated, step_refined, the edit_sequence_step result of a
\* chat_response) computes its result from the Sequence the previous event left,
\* also when the listeners have not been re-registered since that event.
C29_AsStated ==
    [][/\ last'.op = "step_refined"
          => sequence' = StepRefined(last'.id, last'.text, sequence, sequence)
       /\ last'.op = "sequence_updated"
          => \A d \in SequenceUpdatedData :
                OnSequenceUpdated(d) => sequence' = SequenceUpdated(d, sequence, sequence)
       /\ (last'.op = "chat_response" /\ last'.id = "edit_sequence_step")
          => \A w \in SequenceWire :
                (HasAction(w, "edit_sequence_step") /\ OnChatResponse(w))
                => sequence' = ChatResponseSequence(w, sequence, sequence)]_vars

====
